---- MODULE Spec2Model ----
(***************************************************************************)
(* Model of example_extension/example.py: the in-memory authentication     *)
(* and account-configuration extension (InMemoryExtension) and its users   *)
(* table.                                                                  *)
(*                                                                         *)
(* Python dictionaries are functions whose DOMAIN is the set of keys that  *)
(* are present, so `'denied' in user_data` is "denied" \in DOMAIN          *)
(* user_data.  A call ends either by returning a value or by raising; both *)
(* are recorded as an outcome [kind, value].  Python's True / False / None *)
(* are the strings "True" / "False" / "None".                              *)
(***************************************************************************)
EXTENDS Integers, Sequences, FiniteSets, TLC

\* Longest list of stored ssh keys an enumerated account carries.
MaxKeys == 2

----------------------------------------------------------------------------
(* Data of the module *)

SSH_PUB1 == "ssh-rsa AAAAB3NzaC1yc2EAAAABJQAAAIEAhXRMOofqtrJpleleYXnOCRm5X1l2EeIpIFIQPYuHI9pvGsTlk8KrVw+Lh6Jj1h58EbL9uPAr/F+Cj2MkY/ScgpXinQTggZp+PqEes8Optv6YcMTCp5pNbKmmw61pEujU334pfP6LGLRdHRacq3vYK28klJDmos6tDccYmjRwEHM= key-comments"

\* A second public key, not in the table of the module: the key of a client
\* that the accounts of USERS do not list.
SSH_PUB2 == "ssh-rsa AAAAB3NzaC1yc2EAAAADAQABAAAAgQC7= other-key"

USERS ==
    [ user1 |-> [ password |-> "password1",
                  ssh_keys |-> <<SSH_PUB1, SSH_PUB1>>,
                  allow_certificate |-> FALSE,
                  configuration |-> [ create_home_folder |-> FALSE,
                                      home_folder_path |-> "/tmp" ] ],
      user2 |-> [ password |-> "",
                  ssh_keys |-> <<>>,
                  allow_certificate |-> TRUE,
                  enabled_credentials |-> << "IPasswordCredentials",
                                             "ISSHKeyCredentials",
                                             "ISSLCertificateCredentials" >>,
                  configuration |-> [ create_home_folder |-> TRUE,
                                      home_folder_path |-> "/tmp/user2" ] ],
      user3 |-> [ denied |-> TRUE ],
      user4 |-> [ internal_error |-> TRUE ] ]

----------------------------------------------------------------------------
(* The inputs: account records and credentials *)

\* Passwords a client can supply and passwords an account can store; "" is
\* the empty password.
Passwords == {"", "password1", "Password1"}
StoredPasswords == {"", "password1"}

\* Key material a client can present; "" stands for no key data (Python's
\* `not credentials.key_data` holds for None and for the empty blob alike).
NoKeyData == ""
PublicKeys == {SSH_PUB1, SSH_PUB2}

RECURSIVE SeqsUpTo(_, _)
SeqsUpTo(S, n) ==
    IF n = 0 THEN { <<>> }
    ELSE LET shorter == SeqsUpTo(S, n - 1) IN
         shorter \cup { Append(s, x) : s \in { t \in shorter : Len(t) = n - 1 }, x \in S }

KeyLists == SeqsUpTo(PublicKeys, MaxKeys)

Configurations == { USERS.user1.configuration }

\* S, and every record of S with the key `name` added, bound to a value of Vals.
WithOptional(S, name, Vals) ==
    S \cup { r @@ (name :> v) : r \in S, v \in Vals }

\* Accounts carrying the three credential fields of the data model; denied,
\* internal_error and configuration are optional keys.
FullAccounts ==
    WithOptional(
      WithOptional(
        WithOptional(
          [ password : StoredPasswords, ssh_keys : KeyLists,
            allow_certificate : BOOLEAN ],
          "denied", BOOLEAN),
        "internal_error", BOOLEAN),
      "configuration", Configurations)

\* Accounts shaped like user3 and user4 of USERS: nothing but the flags, one
\* of which is set.
FlagOnlyAccounts ==
    { [ denied |-> TRUE ], [ internal_error |-> TRUE ],
      [ denied |-> TRUE, internal_error |-> TRUE ],
      [ denied |-> TRUE, internal_error |-> FALSE ],
      [ denied |-> FALSE, internal_error |-> TRUE ] }

Accounts == FullAccounts \cup FlagOnlyAccounts

\* Usernames a credential can carry; "nobody" is in no table.
Usernames == {"user1", "user2", "user3", "user4", "nobody"}

\* The value of subject.commonName when the subject has no such entry.
NoCommonName == "<None>"
CommonNames == {"user1", "user2", NoCommonName}

\* What the certificate object of the host does when asked for its subject:
\* get_subject() raises, or it returns a subject whose commonName attribute
\* either reads as a value or raises.
Subjects ==
    { [ raises |-> "get_subject" ], [ raises |-> "commonName" ] }
      \cup [ commonName : CommonNames ]

NoCertificate == [ present |-> FALSE ]
Certificates == { NoCertificate } \cup [ present : {TRUE}, subject : Subjects ]

PasswordCredentials ==
    [ provides : {"IPasswordCredentials"}, username : Usernames, password : Passwords ]
SSHKeyCredentials ==
    [ provides : {"ISSHKeyCredentials"}, username : Usernames,
      key_data : PublicKeys \cup {NoKeyData} ]
SSLCertificateCredentials ==
    [ provides : {"ISSLCertificateCredentials"}, username : Usernames,
      certificate : Certificates ]
\* Credentials of a kind the extension does not know.
OtherCredentials ==
    [ provides : {"IOtherCredentials"}, username : Usernames ]

Credentials ==
    PasswordCredentials \cup SSHKeyCredentials
      \cup SSLCertificateCredentials \cup OtherCredentials

----------------------------------------------------------------------------
(* Outcomes *)

Return(v) == [ kind |-> "return", value |-> v ]
Raise(e) == [ kind |-> "raise", value |-> e ]

\* The three values validateCredentials returns, as the host reads them.
Accepted == Return("True")
Rejected == Return("False")
Indeterminate == Return("None")

\* What one call of validateCredentials did: how it ended, and which of the
\* kind-specific validators it entered ("none" when it ended before).
Result(outcome, validator) == [ outcome |-> outcome, validator |-> validator ]

----------------------------------------------------------------------------
(* InMemoryExtension *)

\* is_key_authorized of the host library: the supplied key is one of the
\* account's keys.
is_key_authorized(credentials, keys) ==
    \E i \in 1..Len(keys) : keys[i] = credentials.key_data

\* _validatePasswordCredentials without its first check, the one for an
\* empty supplied password.
_validatePasswordCredentials_NoEmptyCheck(db, credentials) ==
    LET username == credentials.username
        password == credentials.password
    IN  IF "password" \notin DOMAIN db[username] THEN Raise("KeyError")
        ELSE IF db[username].password = "" THEN Return("False")
        ELSE IF password = db[username].password THEN Return("True")
        ELSE Return("False")

_validatePasswordCredentials(db, credentials) ==
    LET username == credentials.username
        password == credentials.password
    IN  IF password = "" THEN Return("None")
        ELSE IF "password" \notin DOMAIN db[username] THEN Raise("KeyError")
        ELSE IF db[username].password = "" THEN Return("False")
        ELSE IF password = db[username].password THEN Return("True")
        ELSE Return("False")

\* _validateSSHCredentials comparing the supplied key with the first stored
\* key only.
_validateSSHCredentials_FirstKeyOnly(db, credentials) ==
    LET username == credentials.username
    IN  IF credentials.key_data = NoKeyData THEN Return("False")
        ELSE IF "ssh_keys" \notin DOMAIN db[username] THEN Raise("KeyError")
        ELSE LET keys == db[username].ssh_keys
             IN  IF keys = <<>> THEN Return("False")
                 ELSE IF keys[1] = credentials.key_data THEN Return("True")
                 ELSE Return("False")

_validateSSHCredentials(db, credentials) ==
    LET username == credentials.username
    IN  IF credentials.key_data = NoKeyData THEN Return("False")
        ELSE IF "ssh_keys" \notin DOMAIN db[username] THEN Raise("KeyError")
        ELSE LET keys == db[username].ssh_keys
             IN  IF keys = <<>> THEN Return("False")
                 ELSE IF is_key_authorized(credentials, keys) THEN Return("True")
                 ELSE Return("False")

\* _validateSSLCredentials without the check of allow_certificate.
_validateSSLCredentials_IgnoresAllow(db, credentials) ==
    LET username == credentials.username
    IN  IF ~credentials.certificate.present THEN Return("False")
        ELSE LET subject == credentials.certificate.subject
             IN  IF "raises" \in DOMAIN subject /\ subject.raises = "get_subject"
                 THEN Return("False")
                 ELSE IF "raises" \in DOMAIN subject
                 THEN Raise("AttributeError")
                 ELSE IF subject.commonName = username THEN Return("True")
                 ELSE Return("False")

_validateSSLCredentials(db, credentials) ==
    LET username == credentials.username
    IN  IF ~credentials.certificate.present THEN Return("False")
        ELSE IF "allow_certificate" \notin DOMAIN db[username] THEN Raise("KeyError")
        ELSE IF ~db[username].allow_certificate THEN Return("False")
        ELSE LET subject == credentials.certificate.subject
             IN  \* try: subject = credentials.certificate.get_subject()
                 IF "raises" \in DOMAIN subject /\ subject.raises = "get_subject"
                 THEN Return("False")
                 \* else: common_name = subject.commonName, outside the try
                 ELSE IF "raises" \in DOMAIN subject
                 THEN Raise("AttributeError")
                 ELSE IF subject.commonName = username THEN Return("True")
                 ELSE Return("False")

denied(user_data) ==
    "denied" \in DOMAIN user_data /\ user_data.denied

\* The internal_error test as a copy of the denied test, the key not renamed.
internal_error_TestsDenied(user_data) ==
    "denied" \in DOMAIN user_data /\ user_data.denied

internal_error(user_data) ==
    "internal_error" \in DOMAIN user_data /\ user_data.internal_error

\* validateCredentials testing internal_error before denied.
validateCredentials_InternalErrorFirst(db, credentials) ==
    LET username == credentials.username
    IN  IF username \notin DOMAIN db THEN Result(Return("False"), "none")
        ELSE LET user_data == db[username]
             IN  IF internal_error(user_data)
                 THEN Result(Raise("AssertionError"), "none")
                 ELSE IF denied(user_data)
                 THEN Result(Raise("ExternalAuthenticationException"), "none")
                 ELSE IF credentials.provides = "IPasswordCredentials"
                 THEN Result(_validatePasswordCredentials(db, credentials),
                             "_validatePasswordCredentials")
                 ELSE IF credentials.provides = "ISSHKeyCredentials"
                 THEN Result(_validateSSHCredentials(db, credentials),
                             "_validateSSHCredentials")
                 ELSE IF credentials.provides = "ISSLCertificateCredentials"
                 THEN Result(_validateSSLCredentials(db, credentials),
                             "_validateSSLCredentials")
                 ELSE Result(Return("False"), "none")

\* validateCredentials with the check for an empty password done before the
\* lookup of the username.
validateCredentials_EmptyPasswordFirst(db, credentials) ==
    LET username == credentials.username
    IN  IF credentials.provides = "IPasswordCredentials" /\ credentials.password = ""
        THEN Result(Return("None"), "none")
        ELSE IF username \notin DOMAIN db THEN Result(Return("False"), "none")
        ELSE LET user_data == db[username]
             IN  IF denied(user_data)
                 THEN Result(Raise("ExternalAuthenticationException"), "none")
                 ELSE IF internal_error(user_data)
                 THEN Result(Raise("AssertionError"), "none")
                 ELSE IF credentials.provides = "IPasswordCredentials"
                 THEN Result(_validatePasswordCredentials(db, credentials),
                             "_validatePasswordCredentials")
                 ELSE IF credentials.provides = "ISSHKeyCredentials"
                 THEN Result(_validateSSHCredentials(db, credentials),
                             "_validateSSHCredentials")
                 ELSE IF credentials.provides = "ISSLCertificateCredentials"
                 THEN Result(_validateSSLCredentials(db, credentials),
                             "_validateSSLCredentials")
                 ELSE Result(Return("False"), "none")

validateCredentials(db, credentials) ==
    LET username == credentials.username
    IN  IF username \notin DOMAIN db THEN Result(Return("False"), "none")
        ELSE LET user_data == db[username]
             IN  IF denied(user_data)
                 THEN Result(Raise("ExternalAuthenticationException"), "none")
                 ELSE IF internal_error(user_data)
                 THEN Result(Raise("AssertionError"), "none")
                 ELSE IF credentials.provides = "IPasswordCredentials"
                 THEN Result(_validatePasswordCredentials(db, credentials),
                             "_validatePasswordCredentials")
                 ELSE IF credentials.provides = "ISSHKeyCredentials"
                 THEN Result(_validateSSHCredentials(db, credentials),
                             "_validateSSHCredentials")
                 ELSE IF credentials.provides = "ISSLCertificateCredentials"
                 THEN Result(_validateSSLCredentials(db, credentials),
                             "_validateSSLCredentials")
                 ELSE Result(Return("False"), "none")

\* InMemoryExternalAvatar: the username and a reference to the account's
\* configuration; its properties read through that reference.
InMemoryExternalAvatar(username, configuration) ==
    [ _name |-> username, _configuration |-> configuration ]

name(avatar) == avatar._name
create_home_folder(avatar) == avatar._configuration.create_home_folder
home_folder_path(avatar) == avatar._configuration.home_folder_path

\* The absent result of getAccountConfiguration.
None == [ kind |-> "return", value |-> "None" ]
ReturnAvatar(avatar) == [ kind |-> "return", avatar |-> avatar ]

\* getAccountConfiguration without its except clause.
getAccountConfiguration_NoExcept(db, credentials) ==
    LET username == credentials.username
    IN  IF username \notin DOMAIN db THEN Raise("KeyError")
        ELSE IF "configuration" \notin DOMAIN db[username] THEN Raise("KeyError")
        ELSE ReturnAvatar(InMemoryExternalAvatar(username, db[username].configuration))

getAccountConfiguration(db, credentials) ==
    LET username == credentials.username
    IN  \* a KeyError of either subscript is caught
        IF username \notin DOMAIN db THEN None
        ELSE IF "configuration" \notin DOMAIN db[username] THEN None
        ELSE ReturnAvatar(InMemoryExternalAvatar(username, db[username].configuration))

----------------------------------------------------------------------------
(* State *)

VARIABLES
    users_database,     \* self._users_database
    loaded_database,    \* the table the extension was constructed with
    last                \* the call the host made last, and how it ended

vars == << users_database, loaded_database, last >>

\* The extension is constructed over a table: USERS, with the account of
\* user1 ranging over the enumerated accounts.
Tables == { [ USERS EXCEPT !.user1 = a ] : a \in Accounts }

Init ==
    /\ users_database \in Tables
    /\ loaded_database = users_database
    /\ last = [ op |-> "none" ]

\* validateCredentials keeping state: an account whose credential is not
\* accepted is marked denied in the table.
CallValidateCredentials_Lockout ==
    \E credentials \in Credentials :
        LET r == validateCredentials(users_database, credentials)
        IN  /\ last' = [ op |-> "validateCredentials",
                         credentials |-> credentials,
                         outcome |-> r.outcome,
                         validator |-> r.validator ]
            /\ users_database' =
                 IF r.outcome = Return("False")
                      /\ credentials.username \in DOMAIN users_database
                 THEN [ users_database EXCEPT
                          ![credentials.username] = ("denied" :> TRUE) @@ @ ]
                 ELSE users_database
            /\ UNCHANGED loaded_database

CallValidateCredentials ==
    \E credentials \in Credentials :
        LET r == validateCredentials(users_database, credentials)
        IN  /\ last' = [ op |-> "validateCredentials",
                         credentials |-> credentials,
                         outcome |-> r.outcome,
                         validator |-> r.validator ]
            /\ UNCHANGED << users_database, loaded_database >>

\* getAccountConfiguration reads nothing of its credentials but the username.
CallGetAccountConfiguration ==
    \E credentials \in [ username : Usernames ] :
        /\ last' = [ op |-> "getAccountConfiguration",
                     credentials |-> credentials,
                     outcome |-> getAccountConfiguration(users_database, credentials) ]
        /\ UNCHANGED << users_database, loaded_database >>

Next ==
    \/ CallValidateCredentials
    \/ CallGetAccountConfiguration

Spec == Init /\ [][Next]_vars

----------------------------------------------------------------------------
(* Shorthands for the properties *)

Validated == last.op = "validateCredentials"
Configured == last.op = "getAccountConfiguration"

\* The account the last call was about, when the table has one.
InTable == last.credentials.username \in DOMAIN users_database
Account == users_database[last.credentials.username]

\* The account carries the flag, set.
HasFlag(account, flag) == flag \in DOMAIN account /\ account[flag] = TRUE

\* The last call was about an account that is neither denied nor
\* internal_error.
Ordinary ==
    /\ InTable
    /\ ~HasFlag(Account, "denied")
    /\ ~HasFlag(Account, "internal_error")

AccountDenied == Raise("ExternalAuthenticationException")
InternalFault == Raise("AssertionError")

Range(seq) == { seq[i] : i \in 1..Len(seq) }

----------------------------------------------------------------------------
(* Properties *)

\* C1: a call of validateCredentials about an account with denied = true
\* ends in AccountDenied, whatever the kind and content of the credential
\* and whether or not internal_error is set too, and it enters none of the
\* kind-specific validators.
C1_DeniedRaisesAccountDenied ==
    (Validated /\ InTable /\ HasFlag(Account, "denied"))
        => /\ last.outcome = AccountDenied
           /\ last.validator = "none"

C1_Witness ==
    /\ Validated /\ InTable
    /\ HasFlag(Account, "denied") /\ HasFlag(Account, "internal_error")
    /\ last.credentials.provides = "ISSLCertificateCredentials"
    /\ last.credentials.certificate = NoCertificate
    /\ last.outcome = AccountDenied

\* C2: a call of validateCredentials about an account with internal_error =
\* true and denied not true ends in InternalFault, whatever the kind and
\* content of the credential, and it enters none of the kind-specific
\* validators.
C2_InternalErrorRaisesInternalFault ==
    (Validated /\ InTable /\ HasFlag(Account, "internal_error")
               /\ ~HasFlag(Account, "denied"))
        => /\ last.outcome = InternalFault
           /\ last.validator = "none"

C2_Witness ==
    /\ Validated /\ InTable
    /\ HasFlag(Account, "internal_error")
    /\ "denied" \in DOMAIN Account /\ ~Account.denied
    /\ last.credentials.provides = "IPasswordCredentials"
    /\ last.credentials.password = ""
    /\ last.outcome = InternalFault

\* C3: a call of validateCredentials whose username is not a key of the
\* table returns Rejected, whatever the kind and content of the credential;
\* an empty password for an unknown username is Rejected, not Indeterminate.
C3_UnknownUsernameRejected ==
    (Validated /\ ~InTable) => last.outcome = Rejected

C3_Witness ==
    /\ Validated /\ ~InTable
    /\ last.credentials.provides = "IPasswordCredentials"
    /\ last.credentials.password = ""
    /\ last.outcome = Rejected

\* C4: for a password credential on an ordinary account the verdict is
\* Indeterminate when the supplied password is empty, otherwise Rejected when
\* the stored password is empty, otherwise Accepted when the two passwords
\* are the same string and Rejected when they differ; so an account with an
\* empty stored password is never Accepted.
C4_PasswordVerdict ==
    (Validated /\ Ordinary /\ last.credentials.provides = "IPasswordCredentials")
        => /\ last.outcome =
                IF last.credentials.password = "" THEN Indeterminate
                ELSE IF Account.password = "" THEN Rejected
                ELSE IF last.credentials.password = Account.password THEN Accepted
                ELSE Rejected
           /\ Account.password = "" => last.outcome # Accepted

C4_Witness ==
    /\ Validated /\ Ordinary
    /\ last.credentials.provides = "IPasswordCredentials"
    /\ last.credentials.password = "password1"
    /\ Account.password = "password1"
    /\ last.outcome = Accepted

\* C5: for an ssh key credential on an ordinary account the verdict is
\* Rejected when no key data is supplied, Rejected when the account stores no
\* key, and otherwise Accepted exactly when the supplied key is one of the
\* stored keys; a stored list with the same keys, duplicated or not, gives
\* the same verdict.
C5_SSHKeyVerdict ==
    (Validated /\ Ordinary /\ last.credentials.provides = "ISSHKeyCredentials")
        => /\ last.outcome =
                IF last.credentials.key_data = NoKeyData THEN Rejected
                ELSE IF Len(Account.ssh_keys) = 0 THEN Rejected
                ELSE IF last.credentials.key_data \in Range(Account.ssh_keys)
                     THEN Accepted
                ELSE Rejected
           /\ \A keys \in KeyLists :
                Range(keys) = Range(Account.ssh_keys)
                    => validateCredentials(
                           [ users_database EXCEPT
                               ![last.credentials.username].ssh_keys = keys ],
                           last.credentials).outcome = last.outcome

C5_Witness ==
    /\ Validated /\ Ordinary
    /\ last.credentials.provides = "ISSHKeyCredentials"
    /\ last.credentials.key_data = SSH_PUB2
    /\ Account.ssh_keys = << SSH_PUB1, SSH_PUB2 >>
    /\ last.outcome = Accepted

\* The subject of the supplied certificate cannot be read to the end:
\* get_subject() or the commonName attribute raises.
ExtractionFaults ==
    /\ last.credentials.certificate.present
    /\ "raises" \in DOMAIN last.credentials.certificate.subject

C7_ExtractionFaultRejected ==
    (Validated /\ Ordinary
        /\ last.credentials.provides = "ISSLCertificateCredentials"
        /\ ExtractionFaults /\ Account.allow_certificate)
        => last.outcome = Rejected

\* The credential lacks data or is malformed: empty password, no key data,
\* no stored key, no certificate, unknown kind, unknown username.
MissingData ==
    \/ ~InTable
    \/ last.credentials.provides = "IOtherCredentials"
    \/ /\ last.credentials.provides = "IPasswordCredentials"
       /\ last.credentials.password = ""
    \/ /\ last.credentials.provides = "ISSHKeyCredentials"
       /\ \/ last.credentials.key_data = NoKeyData
          \/ "ssh_keys" \in DOMAIN Account /\ Len(Account.ssh_keys) = 0
    \/ /\ last.credentials.provides = "ISSLCertificateCredentials"
       /\ ~last.credentials.certificate.present

\* C8: validateCredentials ends in a verdict, in AccountDenied or in
\* InternalFault and in nothing else; AccountDenied only for an account with
\* denied = true, InternalFault only for one with internal_error = true; a
\* credential with missing data on an account that is neither gets Rejected
\* or Indeterminate.
C8_OnlyTwoFaults ==
    Validated
        => /\ last.outcome \in
                { Accepted, Rejected, Indeterminate, AccountDenied, InternalFault }
           /\ last.outcome = AccountDenied
                => InTable /\ HasFlag(Account, "denied")
           /\ last.outcome = InternalFault
                => InTable /\ HasFlag(Account, "internal_error")
           /\ (MissingData /\ (InTable => Ordinary))
                => last.outcome \in { Rejected, Indeterminate }

\* C9: getAccountConfiguration returns, for an account with a configuration
\* entry, an avatar named as the username whose create_home_folder and
\* home_folder_path are those of the account's configuration, and the absent
\* result for an account without one.
C9_AccountConfiguration ==
    (Configured /\ InTable)
        => IF "configuration" \in DOMAIN Account
           THEN /\ "avatar" \in DOMAIN last.outcome
                /\ last.outcome.kind = "return"
                /\ name(last.outcome.avatar) = last.credentials.username
                /\ create_home_folder(last.outcome.avatar)
                     = Account.configuration.create_home_folder
                /\ home_folder_path(last.outcome.avatar)
                     = Account.configuration.home_folder_path
           ELSE last.outcome = None

C9_Witness ==
    /\ Configured /\ InTable
    /\ last.credentials.username = "user2"
    /\ "avatar" \in DOMAIN last.outcome
    /\ home_folder_path(last.outcome.avatar) = "/tmp/user2"
    /\ create_home_folder(last.outcome.avatar)

\* C10: after any sequence of calls the table is the one the extension was
\* constructed with, and every call ended as the code ends on its credential
\* and that table, whatever calls came before it.
C10_TableUnchangedAndCallsPure ==
    /\ users_database = loaded_database
    /\ Validated
         => last.outcome
              = validateCredentials(loaded_database, last.credentials).outcome
    /\ Configured
         => last.outcome
              = getAccountConfiguration(loaded_database, last.credentials)

C10_Witness ==
    /\ Validated /\ InTable
    /\ last.outcome = InternalFault
    /\ users_database = loaded_database

====
